---- MODULE Spec2Model ----
(***************************************************************************)
(* A model of iam_visualizer.py: one run of main().  The collector         *)
(* (get_iam_data and its helpers) queries an IAM API, the exporter         *)
(* (write_yaml, write_dot) serialises the Collection result, the renderer  *)
(* (generate_graph) runs the external "dot" tool.                          *)
(*                                                                         *)
(* Python dicts keep insertion order, so a dict is modelled as a sequence  *)
(* of <<key, value>> pairs with distinct keys.  Texts are sequences of     *)
(* lines, a line being the tuple of its parts.                             *)
(***************************************************************************)
EXTENDS Integers, Sequences, FiniteSets, TLC

\* ---------------------------------------------------------------- bounds
MaxUsers == 2
MaxRoles == 1
MaxPolicies == 1
\* relationships (policy attachments, memberships) held by the API
MaxRunEdges == 0
MaxEdges == 3
\* the largest number of items the API puts in one page of a listing
MaxPageSize == 2

\* every user, role, policy and referenced policy name; one universe, so
\* that a name may occur in more than one kind
Names == {"a", "b"}
GroupNames == {"g"}
\* the order in which the API lists items
ApiOrder == <<"a", "b", "g">>

\* argparse leaves args.name None when --name is absent
None == "None"

\* ------------------------------------------------------- ordered mappings
Range(s) == {s[i] : i \in DOMAIN s}

Min(x, y) == IF x <= y THEN x ELSE y

Keys(d) == [i \in DOMAIN d |-> d[i][1]]

HasKey(d, k) == \E i \in DOMAIN d : d[i][1] = k

Get(d, k) == d[CHOOSE i \in DOMAIN d : d[i][1] = k][2]

\* d.get(k, {}) and d.get(k, [])
GetOr(d, k, default) == IF HasKey(d, k) THEN Get(d, k) ELSE default

\* d[k] = v: a present key keeps its place, a new key goes last
DictSet(d, k, v) ==
    IF HasKey(d, k)
    THEN [i \in DOMAIN d |-> IF d[i][1] = k THEN <<k, v>> ELSE d[i]]
    ELSE Append(d, <<k, v>>)

RECURSIVE Flatten(_)
Flatten(ss) == IF ss = <<>> THEN <<>> ELSE Head(ss) \o Flatten(Tail(ss))

\* sequences over S without repetition, of length at most n
RECURSIVE NoDupSeqs(_, _)
NoDupSeqs(S, n) ==
    IF n = 0 THEN {<<>>}
    ELSE LET shorter == NoDupSeqs(S, n - 1)
         IN shorter \cup UNION {{Append(s, x) : x \in S \ Range(s)} : s \in shorter}

\* subsets of E with at most n elements
RECURSIVE SubsetsUpTo(_, _)
SubsetsUpTo(E, n) ==
    IF n = 0 THEN {{}}
    ELSE LET smaller == SubsetsUpTo(E, n - 1)
         IN smaller \cup {s \cup {e} : s \in smaller, e \in E}

\* ------------------------------------------------------------ the IAM API
\* The API state is a record: the listings of users, roles and local
\* policies, the relationships as a set of edges <<relation, holder,
\* target>>, and the number of items the API puts in one page.
UserRelations == {"UserAttached", "UserInline"}
GroupRelations == {"GroupAttached", "GroupInline"}
RoleRelations == {"RoleAttached", "RoleInline"}
AttachedRelations == {"UserAttached", "GroupAttached", "RoleAttached"}

\* the relationships the API can hold for the listed users and roles, the
\* policies referred to being among refs
EdgeUniverse(users, roles, refs) ==
    (UserRelations \X Range(users) \X refs)
    \cup ({"UserGroup"} \X Range(users) \X GroupNames)
    \cup (GroupRelations \X GroupNames \X refs)
    \cup (RoleRelations \X Range(roles) \X refs)

\* a group is reached only through a member: groups without one are left
\* without policies
GroupsHaveMembers(edges) ==
    \A e \in edges :
        e[1] \in GroupRelations => \E m \in edges : m[1] = "UserGroup" /\ m[3] = e[2]

Worlds(maxEdges, pageSizes, refs) ==
    UNION {
        {[Users |-> ur[1], Roles |-> ur[2], Policies |-> p, Edges |-> e, PageSize |-> n] :
            p \in NoDupSeqs(Names, MaxPolicies),
            e \in {x \in SubsetsUpTo(EdgeUniverse(ur[1], ur[2], refs), maxEdges) :
                      GroupsHaveMembers(x)},
            n \in pageSizes} :
        ur \in NoDupSeqs(Names, MaxUsers) \X NoDupSeqs(Names, MaxRoles)}

\* everything the API holds for one relation of one holder, in API order
Listing(a, rel, holder) ==
    LET Held(t) == <<rel, holder, t>> \in a.Edges
    IN SelectSeq(ApiOrder, Held)

\* a list_* call made once: the first page only (the response's IsTruncated
\* and Marker are what would lead to the rest)
FirstPage(listing, n) == SubSeq(listing, 1, Min(n, Len(listing)))

\* paginator.paginate(): every page, in order; at least one response
RECURSIVE Pages(_, _)
Pages(listing, n) ==
    IF Len(listing) <= n THEN <<listing>>
    ELSE <<SubSeq(listing, 1, n)>> \o Pages(SubSeq(listing, n + 1, Len(listing)), n)

PolicyNamed(names) == [i \in DOMAIN names |-> [PolicyName |-> names[i]]]

list_attached_user_policies(a, user_name) ==
    PolicyNamed(FirstPage(Listing(a, "UserAttached", user_name), a.PageSize))

list_user_policies(a, user_name) ==
    FirstPage(Listing(a, "UserInline", user_name), a.PageSize)

list_groups_for_user(a, user_name) ==
    LET names == FirstPage(Listing(a, "UserGroup", user_name), a.PageSize)
    IN [i \in DOMAIN names |-> [GroupName |-> names[i]]]

list_attached_group_policies(a, group_name) ==
    PolicyNamed(FirstPage(Listing(a, "GroupAttached", group_name), a.PageSize))

list_group_policies(a, group_name) ==
    FirstPage(Listing(a, "GroupInline", group_name), a.PageSize)

list_attached_role_policies(a, role_name) ==
    PolicyNamed(FirstPage(Listing(a, "RoleAttached", role_name), a.PageSize))

list_role_policies(a, role_name) ==
    FirstPage(Listing(a, "RoleInline", role_name), a.PageSize)

\* the pages of list_users, list_roles and list_policies(Scope='Local')
list_users_pages(a) ==
    LET pages == Pages(a.Users, a.PageSize)
    IN [i \in DOMAIN pages |-> [j \in DOMAIN pages[i] |-> [UserName |-> pages[i][j]]]]

list_roles_pages(a) ==
    LET pages == Pages(a.Roles, a.PageSize)
    IN [i \in DOMAIN pages |-> [j \in DOMAIN pages[i] |-> [RoleName |-> pages[i][j]]]]

PolicyItem(a, policy_name) ==
    [PolicyName |-> policy_name,
     Arn |-> <<"arn:aws:iam::policy/", policy_name>>,
     AttachmentCount |->
        Cardinality({e \in a.Edges : e[1] \in AttachedRelations /\ e[3] = policy_name}),
     DefaultVersionId |-> "v1"]

list_policies_pages(a) ==
    LET pages == Pages(a.Policies, a.PageSize)
    IN [i \in DOMAIN pages |-> [j \in DOMAIN pages[i] |-> PolicyItem(a, pages[i][j])]]

\* get_user / get_role raise NoSuchEntityException for an unknown name
UserExists(a, user_name) == user_name \in Range(a.Users)

\* faulty variant: the role block's existence check is lost
RoleExistsUnchecked(a, role_name) == TRUE

RoleExists(a, role_name) == role_name \in Range(a.Roles)

\* ----------------------------------------------------------- the collector
\* for k in keys: d[k] = dataOf[k]
RECURSIVE FillDict(_, _, _)
FillDict(d, keys, dataOf) ==
    IF keys = <<>> THEN d
    ELSE FillDict(DictSet(d, Head(keys), dataOf[Head(keys)]), Tail(keys), dataOf)

get_group_data(a, group_name) ==
    LET group_data == <<<<"AttachedPolicies", <<>>>>, <<"InlinePolicies", <<>>>>>>
        attached_policies == list_attached_group_policies(a, group_name)
        d1 == DictSet(group_data, "AttachedPolicies",
                      [i \in DOMAIN attached_policies |-> attached_policies[i].PolicyName])
        inline_policies == list_group_policies(a, group_name)
    IN DictSet(d1, "InlinePolicies", inline_policies)

get_user_data(a, user_name) ==
    LET user_data == <<<<"AttachedPolicies", <<>>>>, <<"InlinePolicies", <<>>>>,
                       <<"Groups", <<>>>>>>
        attached_policies == list_attached_user_policies(a, user_name)
        d1 == DictSet(user_data, "AttachedPolicies",
                      [i \in DOMAIN attached_policies |-> attached_policies[i].PolicyName])
        inline_policies == list_user_policies(a, user_name)
        d2 == DictSet(d1, "InlinePolicies", inline_policies)
        groups == list_groups_for_user(a, user_name)
        group_names == [i \in DOMAIN groups |-> groups[i].GroupName]
        group_data == [g \in Range(group_names) |-> get_group_data(a, g)]
    IN DictSet(d2, "Groups", FillDict(Get(d2, "Groups"), group_names, group_data))

get_role_data(a, role_name) ==
    LET role_data == <<<<"AttachedPolicies", <<>>>>, <<"InlinePolicies", <<>>>>>>
        attached_policies == list_attached_role_policies(a, role_name)
        d1 == DictSet(role_data, "AttachedPolicies",
                      [i \in DOMAIN attached_policies |-> attached_policies[i].PolicyName])
        inline_policies == list_role_policies(a, role_name)
    IN DictSet(d1, "InlinePolicies", inline_policies)

\* `if name:` -- None and the empty string both count as no name
Truthy(name) == name # None /\ name # ""

\* faulty variant: the token 'all' is not honoured
RequestedWithoutAll(entities, kind) == kind \in entities

Requested(entities, kind) == kind \in entities \/ "all" \in entities

\* iam_data[kind][key] = value
SetEntry(data, kind, key, value) ==
    DictSet(data, kind, DictSet(Get(data, kind), key, value))

\* The three blocks of get_iam_data.  Each yields the data so far, what it
\* printed, and whether it ended the process with sys.exit(1).
Continue(data) == [exit |-> FALSE, data |-> data, out |-> <<>>]
\* faulty variant: the report is printed and the run goes on (no sys.exit)
ReportNotFound(data, kind, name) ==
    [exit |-> FALSE, data |-> data, out |-> <<<<kind, name, "does not exist.">>>>]

ExitNotFound(data, kind, name) ==
    [exit |-> TRUE, data |-> data, out |-> <<<<kind, name, "does not exist.">>>>]

UsersBlock(a, entities, name, iam_data) ==
    IF ~Requested(entities, "users") THEN Continue(iam_data)
    ELSE LET d0 == DictSet(iam_data, "Users", <<>>)
         IN IF Truthy(name)
            THEN IF UserExists(a, name)
                 THEN Continue(SetEntry(d0, "Users", name, get_user_data(a, name)))
                 ELSE ExitNotFound(d0, "User", name)
            ELSE LET users == Flatten(list_users_pages(a))
                     user_names == [i \in DOMAIN users |-> users[i].UserName]
                     user_data == [u \in Range(user_names) |-> get_user_data(a, u)]
                 IN Continue(DictSet(d0, "Users",
                                     FillDict(Get(d0, "Users"), user_names, user_data)))

RolesBlock(a, entities, name, iam_data) ==
    IF ~Requested(entities, "roles") THEN Continue(iam_data)
    ELSE LET d0 == DictSet(iam_data, "Roles", <<>>)
         IN IF Truthy(name)
            THEN IF RoleExists(a, name)
                 THEN Continue(SetEntry(d0, "Roles", name, get_role_data(a, name)))
                 ELSE ExitNotFound(d0, "Role", name)
            ELSE LET roles == Flatten(list_roles_pages(a))
                     role_names == [i \in DOMAIN roles |-> roles[i].RoleName]
                     role_data == [r \in Range(role_names) |-> get_role_data(a, r)]
                 IN Continue(DictSet(d0, "Roles",
                                     FillDict(Get(d0, "Roles"), role_names, role_data)))

policy_data(policy) ==
    <<<<"Arn", policy.Arn>>, <<"AttachmentCount", policy.AttachmentCount>>,
      <<"DefaultVersionId", policy.DefaultVersionId>>>>

\* faulty variant: the comparison with the name is lost
MatchesAnyName(policy, name) == TRUE

\* `if policy['PolicyName'] == name`
MatchesName(policy, name) == policy.PolicyName = name

PoliciesBlock(a, entities, name, iam_data) ==
    IF ~Requested(entities, "policies") THEN Continue(iam_data)
    ELSE LET d0 == DictSet(iam_data, "Policies", <<>>)
             policies == Flatten(list_policies_pages(a))
         IN IF Truthy(name)
            THEN LET IsNamed(p) == MatchesName(p, name)
                     hits == SelectSeq(policies, IsNamed)
                     hit_names == [i \in DOMAIN hits |-> name]
                     \* a later hit overwrites an earlier one
                     hit_data == [n \in Range(hit_names) |-> policy_data(hits[Len(hits)])]
                     found_policy == hits # <<>>
                 IN IF found_policy
                    THEN Continue(DictSet(d0, "Policies",
                                  FillDict(Get(d0, "Policies"), hit_names, hit_data)))
                    ELSE ExitNotFound(d0, "Policy", name)
            ELSE LET policy_names == [i \in DOMAIN policies |-> policies[i].PolicyName]
                     by_name == [n \in Range(policy_names) |->
                                    policy_data(policies[CHOOSE i \in DOMAIN policies :
                                        /\ policies[i].PolicyName = n
                                        /\ \A j \in DOMAIN policies :
                                              policies[j].PolicyName = n => j <= i])]
                 IN Continue(DictSet(d0, "Policies",
                                     FillDict(Get(d0, "Policies"), policy_names, by_name)))

\* ------------------------------------------------------------ the exporter
\* yaml.dump(iam_data, sort_keys=False), block style, for the records the
\* collector builds.  A line is <<indent, key>> (a mapping follows),
\* <<indent, key, "[]">> or <<indent, key, "{}">> (empty), <<indent, "-",
\* item>> (a list item) or <<indent, key, ":", value>> (a scalar).
YamlList(indent, item) ==
    IF item[2] = <<>> THEN <<<<indent, item[1], "[]">>>>
    ELSE <<<<indent, item[1]>>>> \o [i \in DOMAIN item[2] |-> <<indent, "-", item[2][i]>>]

YamlGroup(indent, item) ==
    <<<<indent, item[1]>>>>
    \o Flatten([k \in DOMAIN item[2] |-> YamlList(indent + 1, item[2][k])])

YamlAttribute(indent, item) ==
    CASE item[1] \in {"AttachedPolicies", "InlinePolicies"} -> YamlList(indent, item)
      [] item[1] = "Groups" ->
            IF item[2] = <<>> THEN <<<<indent, item[1], "{}">>>>
            ELSE <<<<indent, item[1]>>>>
                 \o Flatten([g \in DOMAIN item[2] |-> YamlGroup(indent + 1, item[2][g])])
      [] OTHER -> <<<<indent, item[1], ":", item[2]>>>>

YamlEntity(indent, item) ==
    <<<<indent, item[1]>>>>
    \o Flatten([k \in DOMAIN item[2] |-> YamlAttribute(indent + 1, item[2][k])])

\* faulty variant: sort_keys=True
YamlKindSorted(item) ==
    LET sorted == Flatten([i \in DOMAIN ApiOrder |->
                    LET Named(e) == e[1] = ApiOrder[i] IN SelectSeq(item[2], Named)])
    IN IF item[2] = <<>> THEN <<<<0, item[1], "{}">>>>
       ELSE <<<<0, item[1]>>>>
            \o Flatten([e \in DOMAIN sorted |-> YamlEntity(1, sorted[e])])

YamlKind(item) ==
    IF item[2] = <<>> THEN <<<<0, item[1], "{}">>>>
    ELSE <<<<0, item[1]>>>>
         \o Flatten([e \in DOMAIN item[2] |-> YamlEntity(1, item[2][e])])

YamlDump(iam_data) ==
    IF iam_data = <<>> THEN <<<<0, "{}">>>>
    ELSE Flatten([k \in DOMAIN iam_data |-> YamlKind(iam_data[k])])

\* The graph description.  <<"node", id, kind, shape>> is the statement
\*   "id" [label="kind: id", shape];
\* and <<"edge", from, to, label>> is  "from" -> "to" [label="label"];
NodeLine(id, kind, shape) == <<"node", id, kind, shape>>
EdgeLine(from, to, label) == <<"edge", from, to, label>>

PolicyEdges(holder, data) ==
    LET attached == GetOr(data, "AttachedPolicies", <<>>)
        inline == GetOr(data, "InlinePolicies", <<>>)
    IN [i \in DOMAIN attached |-> EdgeLine(holder, attached[i], "has policy")]
       \o [i \in DOMAIN inline |-> EdgeLine(holder, inline[i], "has inline policy")]

DotGroup(user, item) ==
    <<EdgeLine(user, item[1], "member of")>> \o PolicyEdges(item[1], item[2])

DotUser(item) ==
    LET groups == GetOr(item[2], "Groups", <<>>)
    IN <<NodeLine(item[1], "User", "")>>
       \o PolicyEdges(item[1], item[2])
       \o Flatten([g \in DOMAIN groups |-> DotGroup(item[1], groups[g])])

DotRole(item) ==
    <<NodeLine(item[1], "Role", "shape=oval")>> \o PolicyEdges(item[1], item[2])

DotPolicy(item) == <<NodeLine(item[1], "Policy", "shape=note")>>

DotText(iam_data) ==
    LET users == GetOr(iam_data, "Users", <<>>)
        roles == GetOr(iam_data, "Roles", <<>>)
        policies == IF HasKey(iam_data, "Policies") THEN Get(iam_data, "Policies") ELSE <<>>
    IN <<<<"digraph IAM {">>, <<"rankdir=LR;">>,
         <<"node [shape=rectangle, style=filled, fillcolor=white];">>>>
       \o Flatten([u \in DOMAIN users |-> DotUser(users[u])])
       \o Flatten([r \in DOMAIN roles |-> DotRole(roles[r])])
       \o Flatten([p \in DOMAIN policies |-> DotPolicy(policies[p])])
       \o <<<<"}">>>>

\* ------------------------------------------------------------ one run
VARIABLES
    args,       \* the parsed command line
    api,        \* the IAM API's state
    pc,         \* where the run is: users, roles, policies (in get_iam_data),
                \* yaml, graph, render (in main), done
    iam_data,   \* the Collection result under construction
    stdout,     \* the lines printed, in order
    files,      \* the three output files: whether this run wrote them, and the text
    exit_code,  \* the process's exit status once pc = "done"
    calls,      \* the functions entered, in order
    tool,       \* how often "dot" was started, and how that ended
    api_failed  \* whether an API call raised an error other than "not found"

vars == <<args, api, pc, iam_data, stdout, files, exit_code, calls, tool, api_failed>>

Kinds == {"users", "roles", "policies"}
ValidSelections == {{"all"}} \cup (SUBSET Kinds \ {{}})
\* --name absent, empty, or one name (the names are interchangeable)
NameArgs == {None, "", "a"}
ToolOutcomes == {"ok", "failed", "missing"}

ArgsOf(selections, names, graph_flags, print_flags) ==
    [entities : selections, name : names, generate_graph : graph_flags,
     print_yaml : print_flags]

NoFile == [written |-> FALSE, text |-> <<>>]

InitWith(argset, worlds) ==
    /\ args \in argset
    /\ api \in worlds
    /\ pc = "users"
    /\ iam_data = <<>>
    /\ stdout = <<>>
    /\ files = [yaml |-> NoFile, dot |-> NoFile, image |-> NoFile]
    /\ exit_code = -1
    /\ calls = <<>>
    /\ tool = [runs |-> 0, outcome |-> "unused"]
    /\ api_failed = FALSE

\* every command line, over APIs with few relationships, all to one policy,
\* that page by one item or by the largest page
Init ==
    InitWith(ArgsOf(ValidSelections, NameArgs, BOOLEAN, BOOLEAN),
             Worlds(MaxRunEdges, {1, MaxPageSize}, {"a"}))

\* the default selection without a name, over APIs with more relationships
InitListing ==
    InitWith(ArgsOf({{"all"}}, {None}, BOOLEAN, {FALSE}), Worlds(MaxEdges, 1..MaxPageSize, Names))

\* sys.exit(code), or the end of main with code 0
Exit(code) == pc' = "done" /\ exit_code' = code

\* faulty variant: an API error is swallowed and the run goes on
BlockSwallowsApiError(kind, result, api_ok, next_pc) ==
    IF Requested(args.entities, kind) /\ ~api_ok
    THEN /\ pc' = next_pc
         /\ api_failed' = TRUE
         /\ UNCHANGED <<iam_data, exit_code>>
    ELSE /\ iam_data' = result.data
         /\ IF result.exit THEN Exit(1) ELSE pc' = next_pc /\ UNCHANGED exit_code
         /\ UNCHANGED api_failed

\* One block of get_iam_data: `result` is what the block computes when the
\* API answers; api_ok is whether it does.  A block that is not requested
\* makes no call.  An API error is an uncaught exception: the process ends
\* with status 1.
Block(kind, result, api_ok, next_pc) ==
    IF Requested(args.entities, kind) /\ ~api_ok
    THEN /\ Exit(1)
         /\ api_failed' = TRUE
         /\ UNCHANGED iam_data
    ELSE /\ iam_data' = result.data
         /\ IF result.exit THEN Exit(1) ELSE pc' = next_pc /\ UNCHANGED exit_code
         /\ UNCHANGED api_failed

\* what a block prints: nothing when an API error ends it
Printed(kind, result, api_ok) ==
    IF Requested(args.entities, kind) /\ ~api_ok THEN <<>> ELSE result.out

\* main up to the call of get_iam_data, and the users block
CollectUsers ==
    /\ pc = "users"
    /\ calls' = Append(calls, "get_iam_data")
    /\ \E api_ok \in BOOLEAN :
        LET result == UsersBlock(api, args.entities, args.name, iam_data)
        IN /\ Block("users", result, api_ok, "roles")
           /\ stdout' = stdout \o <<<<"Retrieving IAM data...">>>>
                               \o Printed("users", result, api_ok)
    /\ UNCHANGED <<args, api, files, tool>>

CollectRoles ==
    /\ pc = "roles"
    /\ \E api_ok \in BOOLEAN :
        LET result == RolesBlock(api, args.entities, args.name, iam_data)
        IN /\ Block("roles", result, api_ok, "policies")
           /\ stdout' = stdout \o Printed("roles", result, api_ok)
    /\ UNCHANGED <<args, api, files, calls, tool>>

\* the policies block, and the return to main
CollectPolicies ==
    /\ pc = "policies"
    /\ \E api_ok \in BOOLEAN :
        LET result == PoliciesBlock(api, args.entities, args.name, iam_data)
        IN /\ Block("policies", result, api_ok, "yaml")
           /\ stdout' = stdout \o Printed("policies", result, api_ok)
    /\ UNCHANGED <<args, api, files, calls, tool>>

WriteYaml ==
    /\ pc = "yaml"
    /\ calls' = Append(calls, "write_yaml")
    /\ IF args.print_yaml
       THEN /\ stdout' = stdout \o <<<<"Outputting IAM data to console:">>,
                                     <<"yaml", YamlDump(iam_data)>>>>
            /\ UNCHANGED files
       ELSE /\ stdout' = stdout \o <<<<"Writing IAM data to YAML file">>>>
            /\ files' = [files EXCEPT !.yaml = [written |-> TRUE, text |-> YamlDump(iam_data)]]
    /\ pc' = "graph"
    /\ UNCHANGED <<args, api, iam_data, exit_code, tool, api_failed>>

WriteDot ==
    /\ pc = "graph"
    /\ args.generate_graph
    /\ calls' = Append(calls, "write_dot")
    /\ stdout' = stdout \o <<<<"Writing IAM data to DOT file">>>>
    /\ files' = [files EXCEPT !.dot = [written |-> TRUE, text |-> DotText(iam_data)]]
    /\ pc' = "render"
    /\ UNCHANGED <<args, api, iam_data, exit_code, tool, api_failed>>

SkipGraph ==
    /\ pc = "graph"
    /\ ~args.generate_graph
    /\ stdout' = stdout \o <<<<"Graph generation skipped.">>>>
    /\ Exit(0)
    /\ UNCHANGED <<args, api, iam_data, files, calls, tool, api_failed>>

\* faulty variant: one handler for both failures
ToolLinesOneHandler(outcome) ==
    IF outcome = "ok" THEN <<<<"Graph image generated">>>>
    ELSE <<<<"Error generating graph">>>>

\* what generate_graph prints for each way the tool can end
ToolLines(outcome) ==
    CASE outcome = "ok" -> <<<<"Graph image generated">>>>
      [] outcome = "failed" -> <<<<"Error generating graph">>>>
      [] outcome = "missing" -> <<<<"Graphviz 'dot' command not found.">>>>

\* faulty variant: subprocess.run without check=True
ToolExitUnchecked(outcome) == IF outcome = "missing" THEN 1 ELSE 0

\* the status generate_graph leaves the process with: sys.exit(1) in both
\* handlers, the end of main otherwise
ToolExit(outcome) == IF outcome = "ok" THEN 0 ELSE 1

\* subprocess.run(['dot', ...], check=True): the tool is missing
\* (FileNotFoundError), exits non-zero (CalledProcessError) or succeeds.  A
\* failing tool may or may not leave an image behind.
GenerateGraph ==
    /\ pc = "render"
    /\ calls' = Append(calls, "generate_graph")
    /\ \E outcome \in ToolOutcomes, image_left \in BOOLEAN :
        /\ outcome = "ok" => image_left
        /\ outcome = "missing" => ~image_left
        /\ tool' = [runs |-> tool.runs + 1, outcome |-> outcome]
        /\ files' = [files EXCEPT !.image = IF image_left
                                            THEN [written |-> TRUE, text |-> <<>>]
                                            ELSE @]
        /\ stdout' = stdout \o <<<<"Generating graph visualization...">>>>
                            \o ToolLines(outcome)
        /\ Exit(ToolExit(outcome))
    /\ UNCHANGED <<args, api, iam_data, api_failed>>

Next ==
    \/ CollectUsers
    \/ CollectRoles
    \/ CollectPolicies
    \/ WriteYaml
    \/ WriteDot
    \/ SkipGraph
    \/ GenerateGraph

Spec == Init /\ [][Next]_vars

SpecListing == InitListing /\ [][Next]_vars

\* ------------------------------------------------------------ properties
KeyOf == [users |-> "Users", roles |-> "Roles", policies |-> "Policies"]
LabelOf == [users |-> "User", roles |-> "Role", policies |-> "Policy"]
KindOrder == <<"users", "roles", "policies">>

\* the kinds a valid selection asks for
WantedKinds == IF args.entities = {"all"} THEN Kinds ELSE args.entities

WantedSeq ==
    LET Wanted(k) == k \in WantedKinds
        kinds == SelectSeq(KindOrder, Wanted)
    IN [i \in DOMAIN kinds |-> KeyOf[kinds[i]]]

\* get_iam_data has returned to main
Returned == pc \in {"yaml", "graph", "render"} \/ "write_yaml" \in Range(calls)

NameGiven == args.name \notin {None, ""}

ApiNames(kind) ==
    CASE kind = "users" -> Range(api.Users)
      [] kind = "roles" -> Range(api.Roles)
      [] kind = "policies" -> Range(api.Policies)

MissingKinds == {k \in WantedKinds : args.name \notin ApiNames(k)}
NameMissing == NameGiven /\ MissingKinds # {}

NoFileWritten == \A f \in {"yaml", "dot", "image"} : ~files[f].written
YamlPrinted == \E i \in DOMAIN stdout : stdout[i][1] = "yaml"
NotFoundReported == \E i \in DOMAIN stdout : Len(stdout[i]) = 3
Said(line) == \E i \in DOMAIN stdout : stdout[i] = line

IsPrefix(s, t) == Len(s) <= Len(t) /\ s = SubSeq(t, 1, Len(s))

\* C1: once get_iam_data has returned for a valid selection, the top-level
\* keys of the Collection result are exactly the requested kinds (all three
\* for 'all'), each once, also for a kind without entities.
C1_ExactlyRequestedKeys ==
    Returned =>
        /\ Range(Keys(iam_data)) = {KeyOf[k] : k \in WantedKinds}
        /\ Len(iam_data) = Cardinality(WantedKinds)

C1_Witness ==
    /\ Returned
    /\ args.entities = {"users", "policies"}
    /\ api.Users = <<>>
    /\ api.Roles # <<>>
    /\ Keys(iam_data) = <<"Users", "Policies">>

\* C2: when a name is given that does not exist for a requested kind, the
\* run never gets past collection, never writes an output file, and ends
\* with a non-zero exit status.
C2_MissingNameWritesNothing ==
    NameMissing =>
        /\ NoFileWritten
        /\ pc \in {"users", "roles", "policies", "done"}
        /\ pc = "done" => exit_code # 0

C2_Witness ==
    /\ NameMissing
    /\ pc = "done"
    /\ ~api_failed
    /\ exit_code = 1
    /\ args.generate_graph

C5_RendererFailures ==
    /\ tool.outcome = "missing" =>
          /\ pc = "done" /\ exit_code # 0
          /\ Said(<<"Graphviz 'dot' command not found.">>)
          /\ ~Said(<<"Graph image generated">>)
          /\ ~files.image.written
    /\ tool.outcome = "failed" =>
          /\ pc = "done" /\ exit_code # 0
          /\ Said(<<"Error generating graph">>)
          /\ ~Said(<<"Graph image generated">>)
    /\ tool.runs <= 1
    /\ Cardinality({i \in DOMAIN calls : calls[i] = "generate_graph"}) <= 1

C5_Witness ==
    /\ tool.outcome = "missing"
    /\ files.dot.written
    /\ pc = "done"

YamlTexts ==
    (IF files.yaml.written THEN {files.yaml.text} ELSE {})
    \cup {stdout[i][2] : i \in {j \in DOMAIN stdout : stdout[j][1] = "yaml"}}

YamlKeysAt(text, indent) ==
    LET IsKey(line) == line[1] = indent /\ line[2] # "-"
        lines == SelectSeq(text, IsKey)
    IN [i \in DOMAIN lines |-> lines[i][2]]

EntityItems(data) == Flatten([k \in DOMAIN data |-> data[k][2]])

NodeLines(text) ==
    LET IsNode(line) == line[1] = "node"
    IN SelectSeq(text, IsNode)

ExpectedNodes(data) ==
    LET users == Keys(GetOr(data, "Users", <<>>))
        roles == Keys(GetOr(data, "Roles", <<>>))
        policies == Keys(GetOr(data, "Policies", <<>>))
    IN [i \in DOMAIN users |-> <<"node", users[i], "User", "">>]
       \o [i \in DOMAIN roles |-> <<"node", roles[i], "Role", "shape=oval">>]
       \o [i \in DOMAIN policies |-> <<"node", policies[i], "Policy", "shape=note">>]

\* C6: the exporter's texts follow the Collection result's insertion order
\* and nothing else: in the structured-data text the kinds, the names under
\* each kind and the attributes of each entity appear in insertion order;
\* in the graph description the node statements are the users, then the
\* roles, then the standalone policies, each in insertion order.
C6_InsertionOrder ==
    /\ \A text \in YamlTexts :
          /\ YamlKeysAt(text, 0) = Keys(iam_data)
          /\ YamlKeysAt(text, 1) = Keys(EntityItems(iam_data))
          /\ YamlKeysAt(text, 2) = Keys(EntityItems(EntityItems(iam_data)))
    /\ files.dot.written => NodeLines(files.dot.text) = ExpectedNodes(iam_data)

C6_Witness ==
    /\ files.yaml.written
    /\ files.dot.written
    /\ Keys(iam_data) = <<"Users", "Roles", "Policies">>
    /\ Keys(Get(iam_data, "Users")) = <<"b", "a">>
    /\ Len(Get(iam_data, "Roles")) = 1
    /\ Len(Get(iam_data, "Policies")) = 1

ListsFrom(record, key, rel) ==
    LET listed == IF key = "Groups" THEN Keys(Get(record, key)) ELSE Get(record, key)
        held == Listing(api, rel, args.name)
    IN IsPrefix(listed, held) /\ (held # <<>> => listed # <<>>)

CallOrder == <<"get_iam_data", "write_yaml", "write_dot", "generate_graph">>

\* C9: the functions are entered in the order get_iam_data, write_yaml,
\* write_dot, generate_graph; an API error or a not-found report during
\* collection ends the run with nothing exported from the partly built
\* Collection result; the structured data is out before the graph
\* description is written, and that before the tool is started.
C9_StrictSequence ==
    /\ IsPrefix(calls, CallOrder)
    /\ (api_failed \/ NotFoundReported) =>
          /\ pc = "done" /\ exit_code # 0
          /\ calls = <<"get_iam_data">>
          /\ NoFileWritten
          /\ ~YamlPrinted
    /\ files.dot.written => (files.yaml.written \/ YamlPrinted)
    /\ tool.runs > 0 => files.dot.written
    /\ files.image.written => tool.runs > 0

C9_Witness ==
    /\ api_failed
    /\ pc = "done"
    /\ iam_data # <<>>
    /\ Len(Get(iam_data, "Users")) = 2

FirstMissing ==
    LET Missing(k) == k \in MissingKinds
    IN Head(SelectSeq(KindOrder, Missing))

\* C10: with a name given, the kinds are resolved in the order users, roles,
\* policies; a run exits zero only if the name exists in every requested
\* kind; otherwise it exits non-zero, reports the first kind in that order
\* that lacks the name, and writes nothing of what it had collected.
C10_FirstMissingKindReported ==
    NameGiven =>
        /\ IsPrefix(Keys(iam_data), WantedSeq)
        /\ (pc = "done" /\ exit_code = 0) => MissingKinds = {}
        /\ (pc = "done" /\ ~api_failed /\ MissingKinds # {}) =>
              /\ exit_code # 0
              /\ stdout = <<<<"Retrieving IAM data...">>,
                            <<LabelOf[FirstMissing], args.name, "does not exist.">>>>
              /\ NoFileWritten
              /\ ~YamlPrinted

C10_Witness ==
    /\ NameGiven
    /\ args.entities = {"all"}
    /\ pc = "done"
    /\ ~api_failed
    /\ args.name \in Range(api.Users)
    /\ args.name \notin Range(api.Roles)
    /\ args.name \in Range(api.Policies)
    /\ Keys(Get(iam_data, "Users")) = <<args.name>>

GroupItems(data) ==
    LET users == GetOr(data, "Users", <<>>)
    IN Flatten([u \in DOMAIN users |-> Get(users[u][2], "Groups")])

InputNodes(data) ==
    {<<n, "User">> : n \in Range(Keys(GetOr(data, "Users", <<>>)))}
    \cup {<<n, "Role">> : n \in Range(Keys(GetOr(data, "Roles", <<>>)))}
    \cup {<<n, "Policy">> : n \in Range(Keys(GetOr(data, "Policies", <<>>)))}
    \cup {<<n, "Group">> : n \in Range(Keys(GroupItems(data)))}

HolderEdges(item) ==
    {<<item[1], p, "has policy">> : p \in Range(Get(item[2], "AttachedPolicies"))}
    \cup {<<item[1], p, "has inline policy">> : p \in Range(Get(item[2], "InlinePolicies"))}

InputEdges(data) ==
    LET users == GetOr(data, "Users", <<>>)
        roles == GetOr(data, "Roles", <<>>)
        groups == GroupItems(data)
    IN UNION {HolderEdges(users[u]) : u \in DOMAIN users}
       \cup UNION {HolderEdges(roles[r]) : r \in DOMAIN roles}
       \cup UNION {HolderEdges(groups[g]) : g \in DOMAIN groups}
       \cup UNION {{<<users[u][1], g, "member of">> :
                        g \in Range(Keys(Get(users[u][2], "Groups")))} : u \in DOMAIN users}

NodeCount(text, node) ==
    Cardinality({i \in DOMAIN text :
        /\ Len(text[i]) = 4
        /\ text[i][1] = "node" /\ text[i][2] = node[1] /\ text[i][3] = node[2]})

EdgeCount(text, edge) ==
    Cardinality({i \in DOMAIN text : text[i] = <<"edge", edge[1], edge[2], edge[3]>>})

OneNodePerEntity(text, data) == \A node \in InputNodes(data) : NodeCount(text, node) = 1
OneEdgePerRelationship(text, data) == \A edge \in InputEdges(data) : EdgeCount(text, edge) = 1
NoStatementTwice(text) == \A i, j \in DOMAIN text : text[i] = text[j] => i = j

\* C3: the graph description holds exactly one node statement for each
\* entity of the Collection result (user, role, group, standalone policy)
\* and exactly one edge statement for each of its relationships, and no
\* statement twice.
C3_OneStatementEach ==
    files.dot.written =>
        /\ OneNodePerEntity(files.dot.text, iam_data)
        /\ OneEdgePerRelationship(files.dot.text, iam_data)
        /\ NoStatementTwice(files.dot.text)

Held(rel, holder) == {e[3] : e \in {x \in api.Edges : x[1] = rel /\ x[2] = holder}}

CompleteHolder(item, attached, inline) ==
    /\ Range(Get(item[2], "AttachedPolicies")) = Held(attached, item[1])
    /\ Range(Get(item[2], "InlinePolicies")) = Held(inline, item[1])

\* C8: without a name, once get_iam_data has returned, each requested kind
\* holds exactly the names the API lists, and every user, role and group
\* of a user is recorded with all the relationships the API holds for it,
\* whatever the API's page size.
C8_NothingDropped ==
    (~NameGiven /\ Returned) =>
        /\ \A k \in WantedKinds : Range(Keys(Get(iam_data, KeyOf[k]))) = ApiNames(k)
        /\ "users" \in WantedKinds =>
              LET users == Get(iam_data, "Users")
              IN \A u \in DOMAIN users :
                    LET groups == Get(users[u][2], "Groups")
                    IN /\ CompleteHolder(users[u], "UserAttached", "UserInline")
                       /\ Range(Keys(groups)) = Held("UserGroup", users[u][1])
                       /\ \A g \in DOMAIN groups :
                             CompleteHolder(groups[g], "GroupAttached", "GroupInline")
        /\ "roles" \in WantedKinds =>
              LET roles == Get(iam_data, "Roles")
              IN \A r \in DOMAIN roles :
                    CompleteHolder(roles[r], "RoleAttached", "RoleInline")

====
